---------------------------- MODULE Spec2Model ----------------------------
(***************************************************************************)
(* Nominalist: fuzzy name resolution (NameMatcher / NameService) and the   *)
(* HTTP entry point that drives the username workflow.                     *)
(*                                                                         *)
(* Strings are sequences of one-character strings.  A similarity score is  *)
(* the exact rational the library computes before rounding to a float,     *)
(* kept in lowest terms as [num, den], so that equal scores are equal      *)
(* values.                                                                 *)
(***************************************************************************)
EXTENDS Integers, Sequences, FiniteSets, TLC

(***************************************************************************)
(* Program constants                                                       *)
(***************************************************************************)
TOP_K == 3
NATIVE_LANG == "fa"
LRU_MAXSIZE == 1024
\* create_usernames: while len(unique_usernames) < 10, unique_usernames[:12]
MIN_CANDIDATES == 10
MAX_CANDIDATES == 12

(***************************************************************************)
(* Bounds of the model                                                     *)
(***************************************************************************)
MaxRows == 2
MaxCalls == 2
MaxLen == 4
MaxDraw == 2

(***************************************************************************)
(* Arithmetic helpers                                                      *)
(***************************************************************************)
Min2(a, b) == IF a <= b THEN a ELSE b
Max2(a, b) == IF a >= b THEN a ELSE b

RECURSIVE GCD(_, _)
GCD(a, b) == IF b = 0 THEN a ELSE GCD(b, a % b)

\* the rational n/d (d > 0) in lowest terms, g their greatest common divisor
Reduced(n, d, g) ==
    IF g = 0 THEN [num |-> 0, den |-> 1] ELSE [num |-> n \div g, den |-> d \div g]
Ratio(n, d) == Reduced(n, d, GCD(IF n < 0 THEN -n ELSE n, d))

ScoreLT(x, y) == x.num * y.den < y.num * x.den
ScoreLE(x, y) == x.num * y.den <= y.num * x.den
Score0 == [num |-> 0, den |-> 1]
Score100 == [num |-> 100, den |-> 1]

\* normalized_similarity * 100 = (1 - dist / maximum) * 100, 1.0 on maximum 0
NormalizedSimilarity(dist, maximum) ==
    IF maximum = 0 THEN Score100 ELSE Ratio(100 * (maximum - dist), maximum)

(***************************************************************************)
(* rapidfuzz.distance.Levenshtein: insert, delete, substitute, unit cost   *)
(***************************************************************************)
RECURSIVE LevDist(_, _, _, _)
LevDist(a, b, i, j) ==
    IF i = 0 THEN j
    ELSE IF j = 0 THEN i
    ELSE Min2(Min2(LevDist(a, b, i - 1, j) + 1, LevDist(a, b, i, j - 1) + 1),
              LevDist(a, b, i - 1, j - 1) + (IF a[i] = b[j] THEN 0 ELSE 1))

\* Levenshtein.normalized_similarity(name, x) * 100
LevenshteinMutNormMin(a, b) ==
    NormalizedSimilarity(LevDist(a, b, Len(a), Len(b)), Min2(Len(a), Len(b)))
LevenshteinScore(a, b) ==
    NormalizedSimilarity(LevDist(a, b, Len(a), Len(b)), Max2(Len(a), Len(b)))

(***************************************************************************)
(* rapidfuzz.distance.DamerauLevenshtein: the unrestricted distance, an    *)
(* adjacent transposition costs one and the transposed pair may be edited  *)
(* further (Lowrance-Wagner recurrence).                                   *)
(***************************************************************************)
\* last position k < i of a with a[k] = c, 0 when there is none
LastOf(S) == IF S = {} THEN 0 ELSE CHOOSE k \in S : \A l \in S : l <= k
LastBefore(a, i, c) == LastOf({k \in 1..(i - 1) : a[k] = c})

RECURSIVE DamDist(_, _, _, _)
\* the transposition case: k, l the last earlier positions of the partner
\* characters, base the Levenshtein cases
DamPick(a, b, i, j, base, k, l) ==
    IF k > 0 /\ l > 0
    THEN Min2(base, DamDist(a, b, k - 1, l - 1) + (i - k - 1) + 1 + (j - l - 1))
    ELSE base
DamDist(a, b, i, j) ==
    IF i = 0 THEN j
    ELSE IF j = 0 THEN i
    ELSE DamPick(a, b, i, j,
                 Min2(Min2(DamDist(a, b, i - 1, j) + 1, DamDist(a, b, i, j - 1) + 1),
                      DamDist(a, b, i - 1, j - 1) + (IF a[i] = b[j] THEN 0 ELSE 1)),
                 LastBefore(a, i, b[j]), LastBefore(b, j, a[i]))

\* DamerauLevenshtein.normalized_similarity(name, x) * 100
DamerauScore(a, b) ==
    NormalizedSimilarity(DamDist(a, b, Len(a), Len(b)), Max2(Len(a), Len(b)))

(***************************************************************************)
(* rapidfuzz.distance.JaroWinkler.similarity: Jaro with the prefix boost   *)
(* (prefix of at most 4, weight 0.1, applied above 0.7)                    *)
(***************************************************************************)
JaroWindow(a, b) == Max2(0, (Max2(Len(a), Len(b)) \div 2) - 1)

FirstOf(S) == CHOOSE x \in S : \A y \in S : x <= y

\* greedy matching: for each position i of a in order, the first position of
\* b inside the window, not yet matched, holding the same character.
\* Result: the sequence of <<i, j>> pairs in order of i.
RECURSIVE JaroMatch(_, _, _, _, _)
JaroTake(a, b, i, used, acc, C) ==
    IF C = {} THEN JaroMatch(a, b, i + 1, used, acc)
    ELSE JaroMatch(a, b, i + 1, used \cup {FirstOf(C)}, Append(acc, <<i, FirstOf(C)>>))
JaroMatch(a, b, i, used, acc) ==
    IF i > Len(a) THEN acc
    ELSE JaroTake(a, b, i, used, acc,
                  {j \in 1..Len(b) : /\ j >= i - JaroWindow(a, b)
                                     /\ j <= i + JaroWindow(a, b)
                                     /\ j \notin used
                                     /\ b[j] = a[i]})

\* the k-th smallest element of a set of positions
RECURSIVE KthOf(_, _)
KthOf(S, k) == IF k = 1 THEN FirstOf(S) ELSE KthOf(S \ {FirstOf(S)}, k - 1)

\* matched characters of a and of b, each in its own order, compared
\* position by position; the count of differences is halved (integer)
JaroTranspositions(a, b, ms) ==
    Cardinality({n \in 1..Len(ms) :
                    a[ms[n][1]] # b[KthOf({ms[x][2] : x \in 1..Len(ms)}, n)]}) \div 2

\* (m / la + m / lb + (m - t) / m) / 3
JaroFormula(la, lb, m, t) ==
    IF m = 0 THEN Score0
    ELSE Ratio(m * m * lb + m * m * la + (m - t) * la * lb, 3 * la * lb * m)

JaroOf(a, b, ms) == JaroFormula(Len(a), Len(b), Len(ms), JaroTranspositions(a, b, ms))

JaroSim(a, b) ==
    IF Len(a) = 0 /\ Len(b) = 0 THEN [num |-> 1, den |-> 1]
    ELSE IF Len(a) = 0 \/ Len(b) = 0 THEN Score0
    ELSE JaroOf(a, b, JaroMatch(a, b, 1, {}, <<>>))

CommonPrefix(a, b) ==
    LastOf({p \in 0..Min2(4, Min2(Len(a), Len(b))) : \A q \in 1..p : a[q] = b[q]})

\* sim + prefix * 0.1 * (1 - sim) when sim > 0.7
WinklerBoost(s, p) ==
    IF 10 * s.num > 7 * s.den
    THEN Ratio(10 * s.num + p * (s.den - s.num), 10 * s.den)
    ELSE s

Times100(w) == Ratio(100 * w.num, w.den)

\* JaroWinkler.similarity(name, x) * 100
JaroWinklerScore(a, b) == Times100(WinklerBoost(JaroSim(a, b), CommonPrefix(a, b)))

(***************************************************************************)
(* Inputs of the model                                                     *)
(***************************************************************************)
\* the rows a csv is made of: the native form and the English form
RowUniverse ==
    { [name |-> <<"a", "b">>, english_name |-> <<"b", "a">>],
      [name |-> <<"a", "b">>, english_name |-> <<"a", "b">>],
      [name |-> <<"b", "a">>, english_name |-> <<"b", "a">>] }
\* the name searched for
Queries == {<<"a", "b">>, <<"a", "a", "b">>}
\* lang argument of an outside call
Langs == {NATIVE_LANG, "en"}
\* method argument of an outside call; the last one is not dispatched
Methods == {"levenshtein", "damerau", "jaro_winkler", "damerau_levenshtein"}
\* the method parameter left out of the call (its default applies)
Omitted == "<omitted>"
\* the method names the if/elif chain of get_top_matches dispatches
Supported == {"levenshtein", "damerau", "jaro_winkler"}
\* request.name of a POST /generate-usernames
RequestNames == {<<>>, <<" ">>, <<" ", " ">>, <<"a", "b">>, <<" ", "a">>, <<"a", " ">>}
\* characters of the strings scored
Chars == {"a", "b"}

RECURSIVE SeqsUpTo(_, _)
\* the sequences over S of length at most n
SeqsUpTo(S, n) ==
    IF n = 0 THEN {<<>>}
    ELSE LET P == SeqsUpTo(S, n - 1)
         IN  P \cup {Append(p, x) : p \in {q \in P : Len(q) = n - 1}, x \in S}

\* the non-empty strings of at most MaxLen characters
ScoreStrings == SeqsUpTo(Chars, MaxLen) \ {<<>>}

VARIABLES
    names_df,   \* DataManager.names_df: the rows of the csv, in file order
    top_k,      \* NameMatcher.top_k
    cache,      \* lru_cache of get_top_matches: <<[key, val]>>, least recent first
    held,       \* key of the cached list object the last caller received, or NoKey
    ret,        \* outcome of the last call
    firstRet,   \* history: the first return of get_top_matches, [key, value]
    ncalls,     \* number of calls made since the initial state
    clock,      \* history: number of cache entries read or inserted so far
    last_use,   \* history: key |-> the clock value of its last read or insert
    http,       \* outcome of the last POST /generate-usernames
    state,      \* the UsernameState of the workflow run
    run,        \* the workflow run: where it stands (pc), create_usernames'
                \* english_name, unique_usernames and base_name, and as
                \* history the nodes run, the error the creator node
                \* recorded, the calls of review_and_rank, the list
                \* generate_usernames returned
    usernames_db,
                \* the usernames table of the database
    nlargest_rejects_empty
                \* whether the installed pandas refuses nlargest on the empty
                \* object-dtype Series an empty csv yields (TypeError)

vars == <<names_df, top_k, cache, held, ret, firstRet, ncalls, clock, last_use,
          http, state, run, usernames_db, nlargest_rejects_empty>>
serviceVars == <<names_df, top_k, cache, held, ret, firstRet, ncalls, clock,
                 last_use, http, nlargest_rejects_empty>>
workflowVars == <<state, run, usernames_db>>

NoKey == [name |-> <<>>, lang |-> "", method |-> ""]
NoRet == [op |-> "none", kind |-> "none"]
NoFirst == [key |-> NoKey, value |-> <<>>]
NoHttp == [status |-> 0]

(***************************************************************************)
(* DataManager                                                             *)
(***************************************************************************)
\* get_names(column): the column, in row order
GetNames(df, column) ==
    [i \in 1..Len(df) |-> IF column = "name" THEN df[i].name ELSE df[i].english_name]

(***************************************************************************)
(* NameMatcher                                                             *)
(***************************************************************************)
\* pandas Series.nlargest(k), keep='first': the positions of the k largest
\* values, largest first, an earlier position before a later one on a tie
BestOfKeepLast(scores, left) ==
    CHOOSE i \in left : \A j \in left : \/ ScoreLT(scores[j], scores[i])
                                        \/ (scores[j] = scores[i] /\ i >= j)
BestOf(scores, left) ==
    CHOOSE i \in left : \A j \in left : \/ ScoreLT(scores[j], scores[i])
                                        \/ (scores[j] = scores[i] /\ i <= j)

RECURSIVE NLargestFrom(_, _, _)
NLargestCons(scores, left, k, best) ==
    <<best>> \o NLargestFrom(scores, left \ {best}, k - 1)
NLargestFrom(scores, left, k) ==
    IF k = 0 \/ left = {} THEN <<>>
    ELSE NLargestCons(scores, left, k, BestOf(scores, left))

RECURSIVE NLargestKeepLastFrom(_, _, _)
NLargestKeepLastCons(scores, left, k, best) ==
    <<best>> \o NLargestKeepLastFrom(scores, left \ {best}, k - 1)
NLargestKeepLastFrom(scores, left, k) ==
    IF k = 0 \/ left = {} THEN <<>>
    ELSE NLargestKeepLastCons(scores, left, k, BestOfKeepLast(scores, left))

NLargestMutKeepLast(scores, k) == NLargestKeepLastFrom(scores, DOMAIN scores, k)
NLargestMutOneMore(scores, k) == NLargestFrom(scores, DOMAIN scores, k + 1)

NLargest(scores, k) == NLargestFrom(scores, DOMAIN scores, k)

\* the lambda applied to every value of the column, by metric
MetricScore(metric, a, b) ==
    IF metric = "levenshtein" THEN LevenshteinScore(a, b)
    ELSE IF metric = "damerau" THEN DamerauScore(a, b)
    ELSE JaroWinklerScore(a, b)

\* scores = get_names(column).apply(lambda x: metric(name, x) * 100)
ScoresOf(metric, col, name) == [i \in DOMAIN col |-> MetricScore(metric, name, col[i])]

\* the list comprehension over top_indices: the result tuples
\* (matched value, score, english_name, idx), idx the 0-based row label
MatchTuples(df, col, scores, top_indices) ==
    [n \in 1..Len(top_indices) |->
        [matched |-> col[top_indices[n]],
         score   |-> scores[top_indices[n]],
         english |-> df[top_indices[n]].english_name,
         idx     |-> top_indices[n] - 1]]

\* scores.nlargest(top_k) and the tuples built from it: [kind, value]
TopOfScores(df, k, col, scores) ==
    IF Len(scores) = 0 /\ nlargest_rejects_empty
    THEN [kind |-> "raise", value |-> "TypeError"]
    ELSE [kind |-> "return", value |-> MatchTuples(df, col, scores, NLargest(scores, k))]

\* the body shared by the three _get_top_matches_* methods
TopMatchesBy(metric, df, k, name, col) ==
    TopOfScores(df, k, col, ScoresOf(metric, col, name))

GetTopMatchesLevenshtein(df, k, name, column) ==
    TopMatchesBy("levenshtein", df, k, name, GetNames(df, column))
GetTopMatchesDamerauLevenshtein(df, k, name, column) ==
    TopMatchesBy("damerau", df, k, name, GetNames(df, column))
GetTopMatchesJaroWinkler(df, k, name, column) ==
    TopMatchesBy("jaro_winkler", df, k, name, GetNames(df, column))

\* column = 'name' if lang == NATIVE_LANG else 'english_name'
ColumnOf(lang) == IF lang = NATIVE_LANG THEN "name" ELSE "english_name"

\* the method a call runs with: the default when the argument is left out
MethodOf(methodArg) == IF methodArg = Omitted THEN "levenshtein" ELSE methodArg

\* the if/elif chain of get_top_matches: [kind, value]
DispatchMutSpecNames(df, k, name, column, method) ==
    IF method = "levenshtein" THEN GetTopMatchesLevenshtein(df, k, name, column)
    ELSE IF method = "damerau_levenshtein"
    THEN GetTopMatchesDamerauLevenshtein(df, k, name, column)
    ELSE IF method = "jaro_winkler" THEN GetTopMatchesJaroWinkler(df, k, name, column)
    ELSE [kind |-> "raise", value |-> "ValueError: Unsupported method"]

Dispatch(df, k, name, column, method) ==
    IF method = "levenshtein" THEN GetTopMatchesLevenshtein(df, k, name, column)
    ELSE IF method = "damerau"
    THEN GetTopMatchesDamerauLevenshtein(df, k, name, column)
    ELSE IF method = "jaro_winkler" THEN GetTopMatchesJaroWinkler(df, k, name, column)
    ELSE [kind |-> "raise", value |-> "ValueError: Unsupported method"]

\* the undecorated get_top_matches
GetTopMatchesBody(df, k, name, lang, methodArg) ==
    Dispatch(df, k, name, ColumnOf(lang), MethodOf(methodArg))

(***************************************************************************)
(* functools.lru_cache(maxsize=1024) around get_top_matches                *)
(***************************************************************************)
\* a key that leaves the lang argument out
MakeKeyMutNoLang(name, lang, methodArg) ==
    [name |-> name, lang |-> NATIVE_LANG, method |-> methodArg]
MakeKey(name, lang, methodArg) == [name |-> name, lang |-> lang, method |-> methodArg]

CacheIndex(c, key) ==
    IF \E i \in 1..Len(c) : c[i].key = key
    THEN CHOOSE i \in 1..Len(c) : c[i].key = key
    ELSE 0

RemoveAt(s, i) == SubSeq(s, 1, i - 1) \o SubSeq(s, i + 1, Len(s))

\* a miss: a raise stores nothing; a return is stored, evicting the least
\* recent entry when the cache is full
CacheStore(c, key, r) ==
    IF r.kind = "raise"
    THEN [cache |-> c, kind |-> "raise", value |-> r.value,
          hit |-> FALSE, evicted |-> NoKey]
    ELSE IF Len(c) >= LRU_MAXSIZE
    THEN [cache |-> Append(Tail(c), [key |-> key, val |-> r.value]),
          kind |-> "return", value |-> r.value, hit |-> FALSE, evicted |-> c[1].key]
    ELSE [cache |-> Append(c, [key |-> key, val |-> r.value]),
          kind |-> "return", value |-> r.value, hit |-> FALSE, evicted |-> NoKey]

\* a hit that leaves the entry where it is in the queue
CacheLookupMutNoMove(c, key, i, body) ==
    IF i > 0
    THEN [cache |-> c, kind |-> "return",
          value |-> c[i].val, hit |-> TRUE, evicted |-> NoKey]
    ELSE CacheStore(c, key, body)

\* a hit at position i returns the stored list and makes the entry the most
\* recent; position 0 is a miss and runs the body
CacheLookup(c, key, i, body) ==
    IF i > 0
    THEN [cache |-> Append(RemoveAt(c, i), c[i]), kind |-> "return",
          value |-> c[i].val, hit |-> TRUE, evicted |-> NoKey]
    ELSE CacheStore(c, key, body)

\* one decorated call: [cache, kind, value, hit, evicted]
CachedCall(c, df, k, name, lang, methodArg) ==
    CacheLookup(c, MakeKey(name, lang, methodArg),
                CacheIndex(c, MakeKey(name, lang, methodArg)),
                GetTopMatchesBody(df, k, name, lang, methodArg))

\* history: a call that returned has read or inserted the entry of its key
Tick(t, kind) == IF kind = "return" THEN t + 1 ELSE t
Touch(lu, t, key, kind) ==
    IF kind = "return"
    THEN [k \in DOMAIN lu \cup {key} |-> IF k = key THEN t + 1 ELSE lu[k]]
    ELSE lu

\* history: the first call of get_top_matches that returned, and its value
Remember(f, key, kind, value) ==
    IF kind = "return" /\ f = NoFirst THEN [key |-> key, value |-> value] ELSE f

(***************************************************************************)
(* NameService.get_english_name                                            *)
(***************************************************************************)
\* sorted(xs, key=score, reverse=True): stable, equal scores keep their order
FirstBest(xs) ==
    CHOOSE i \in 1..Len(xs) : \A j \in 1..Len(xs) :
        \/ ScoreLT(xs[j].score, xs[i].score)
        \/ (xs[j].score = xs[i].score /\ i <= j)

RECURSIVE SortedByScoreDesc(_)
SortedCons(xs, i) == <<xs[i]>> \o SortedByScoreDesc(RemoveAt(xs, i))
SortedByScoreDesc(xs) == IF Len(xs) = 0 THEN <<>> ELSE SortedCons(xs, FirstBest(xs))

\* english_mathces + native_matches
MergeMutNativeFirst(english, native) == native \o english
Merge(english, native) == english \o native

\* sorted(...)[0][2], IndexError on an empty list
TopOfMutLast(merged) ==
    IF Len(merged) = 0
    THEN [kind |-> "raise", value |-> "IndexError"]
    ELSE [kind |-> "return", value |-> SortedByScoreDesc(merged)[Len(merged)].english]
TopOf(merged) ==
    IF Len(merged) = 0
    THEN [kind |-> "raise", value |-> "IndexError"]
    ELSE [kind |-> "return", value |-> SortedByScoreDesc(merged)[1].english]

\* the outcome of get_english_name: c the cache it leaves, t the raise or
\* return that ends it, n and e the two lookups as far as they ran
EnglishNameResult(name, c, t, n, e) ==
    [cache |-> c, kind |-> t.kind, value |-> t.value,
     nativeKind |-> n.kind, native |-> n.value,
     englishKind |-> e.kind, english |-> e.value,
     nativeKey |-> MakeKey(name, NATIVE_LANG, Omitted),
     englishKey |-> MakeKey(name, "english_name", Omitted),
     evicted |-> {n.evicted, e.evicted}]

NotRun == [kind |-> "none", value |-> <<>>, evicted |-> NoKey]

\* after the English lookup e: its raise, or the merge and the pick
EnglishNameSecond(name, n, e) ==
    IF e.kind = "raise"
    THEN EnglishNameResult(name, e.cache, e, n, e)
    ELSE EnglishNameResult(name, e.cache, TopOf(Merge(e.value, n.value)), n, e)

\* after the native lookup n: its raise, or the English lookup
EnglishNameFirst(df, k, name, n) ==
    IF n.kind = "raise"
    THEN EnglishNameResult(name, n.cache, n, n, NotRun)
    ELSE EnglishNameSecond(name, n,
                           CachedCall(n.cache, df, k, name, "english_name", Omitted))

\* the whole of get_english_name from cache c: both lookups (the method
\* argument left out of both), the merge and the pick
EnglishName(c, df, k, name) ==
    EnglishNameFirst(df, k, name, CachedCall(c, df, k, name, NATIVE_LANG, Omitted))

(***************************************************************************)
(* api/main.py and graph/workflow.py                                       *)
(***************************************************************************)
RECURSIVE LStrip(_)
LStrip(s) == IF Len(s) > 0 /\ Head(s) = " " THEN LStrip(Tail(s)) ELSE s
RECURSIVE RStrip(_)
RStrip(s) ==
    IF Len(s) > 0 /\ s[Len(s)] = " " THEN RStrip(SubSeq(s, 1, Len(s) - 1)) ELSE s
\* str.strip()
Strip(s) == RStrip(LStrip(s))

\* not request.name or not request.name.strip()
IsBlank(name) == Len(name) = 0 \/ Len(Strip(name)) = 0

\* _creator_node: create_usernames starts with get_english_name; whatever it
\* raises becomes the state's error
CreatorError(r) == IF r.kind = "raise" THEN "Creator error" ELSE ""

\* _reviewer_node: with an error recorded it returns no usernames; otherwise
\* it calls review_and_rank(candidate_usernames), one argument short of
\* review_and_rank(input_name, usernames): the TypeError becomes the state's
\* error and final_usernames keeps its default, the empty list
ReviewerOutcome(error) ==
    IF error # ""
    THEN [error |-> error, final_usernames |-> <<>>, reviewed |-> FALSE]
    ELSE [error |-> "Reviewer error", final_usernames |-> <<>>, reviewed |-> FALSE]

\* the handler's outcome for a blank name: the HTTPException(400) is raised
\* inside the try block, whose `except Exception` turns it into a 500
BlankResponse(name) ==
    [name |-> name, status |-> 500, detail |-> "Internal server error",
     workflow |-> FALSE, error |-> "", usernames |-> <<>>]

\* the handler's outcome once the workflow has run
WorkflowResponse(name, w) ==
    [name |-> name, status |-> 200, detail |-> "", workflow |-> TRUE,
     error |-> w.error, usernames |-> w.final_usernames]

(***************************************************************************)
(* agents/creator.py                                                       *)
(***************************************************************************)
UpperLetters == <<"A", "B", "C", "D", "E", "F", "G", "H", "I", "J", "K",
                  "L", "M", "N", "O", "P", "Q", "R", "S", "T", "U", "V",
                  "W", "X", "Y", "Z">>
LowerLetters == <<"a", "b", "c", "d", "e", "f", "g", "h", "i", "j", "k",
                  "l", "m", "n", "o", "p", "q", "r", "s", "t", "u", "v",
                  "w", "x", "y", "z">>
DigitChars == <<"0", "1", "2", "3", "4", "5", "6", "7", "8", "9">>

\* str.lower()
LowerChar(c) ==
    IF \E i \in 1..Len(UpperLetters) : UpperLetters[i] = c
    THEN LowerLetters[CHOOSE i \in 1..Len(UpperLetters) : UpperLetters[i] = c]
    ELSE c
Lower(s) == [i \in 1..Len(s) |-> LowerChar(s[i])]

\* str.replace(old, new) for a one-character old
RECURSIVE Replace(_, _, _)
Replace(s, old, new) ==
    IF Len(s) = 0 THEN <<>>
    ELSE (IF Head(s) = old THEN new ELSE <<Head(s)>>) \o Replace(Tail(s), old, new)

\* the decimal writing of n in an f-string
RECURSIVE Digits(_)
Digits(n) ==
    IF n < 10 THEN <<DigitChars[n + 1]>>
    ELSE Append(Digits(n \div 10), DigitChars[(n % 10) + 1])

\* s[::-1]
Reverse(s) == [i \in 1..Len(s) |-> s[Len(s) + 1 - i]]

\* xs[:n]
Take(xs, n) == SubSeq(xs, 1, Min2(n, Len(xs)))

\* random.randint(lo, hi): the first MaxDraw values of the range
RandInt(lo, hi) == lo..Min2(hi, lo + MaxDraw - 1)
\* random.choice(xs): any element
RandChoice(xs) == {xs[i] : i \in 1..Len(xs)}
\* random.choice(xs) outside the fill loop: one of the first MaxDraw elements
RandChoiceFirst(xs) == {xs[i] : i \in 1..Min2(Len(xs), MaxDraw)}

\* name.replace(' ', '').lower()
CleanName(name) == Lower(Replace(name, " ", <<>>))

\* re.sub(r'[^a-zA-Z0-9_]', '', username) keeps these characters
IsWordChar(c) ==
    \/ c = "_"
    \/ \E i \in 1..Len(UpperLetters) : c = UpperLetters[i] \/ c = LowerLetters[i]
    \/ \E i \in 1..Len(DigitChars) : c = DigitChars[i]
CleanLine(line) == SelectSeq(Strip(line), IsWordChar)

\* the loop over content.split('\n'): a cleaned line of 4 to 20 characters
\* is kept, lowercased
RECURSIVE CleanedLines(_)
KeptLine(u) == IF 4 <= Len(u) /\ Len(u) <= 20 THEN <<Lower(u)>> ELSE <<>>
CleanedLines(lines) ==
    IF Len(lines) = 0 THEN <<>>
    ELSE KeptLine(CleanLine(Head(lines))) \o CleanedLines(Tail(lines))

\* _generate_creative_usernames, for the draws word, n2 and n1
CreativeOf(base_name, word, n2, n1) ==
    Take(<<Reverse(base_name), word \o <<"_">> \o base_name>>
         \o (IF Len(base_name) > 0
             THEN <<<<base_name[1]>> \o base_name \o Digits(n2)>>
             ELSE <<>>)
         \o <<base_name \o <<"x">> \o Digits(n1)>>, 4)
CreativeWords == <<<<"c", "o", "o", "l">>, <<"s", "u", "p", "e", "r">>,
                  <<"m", "e", "g", "a">>, <<"u", "l", "t", "r", "a">>,
                  <<"p", "r", "i", "m", "e">>>>
GenerateCreativeUsernames(name) ==
    {CreativeOf(CleanName(name), word, n2, n1) :
        word \in RandChoiceFirst(CreativeWords), n2 \in RandInt(10, 99), n1 \in RandInt(1, 9)}

\* what the AI generator answers: a failure of the call, or the lines of
\* the content (an empty content is one empty line)
AiFailure == [kind |-> "raise", lines |-> <<>>]
AiResponses ==
    { AiFailure,
      [kind |-> "content", lines |-> <<<<>>>>],
      [kind |-> "content",
       lines |-> <<<<"u", "s", "e", "r", "_", "a", "b">>,
                   <<" ", "A", "B", "_", "n", "e", "w", " ">>, <<"a", "!", "b">>>>],
      [kind |-> "content",
       lines |-> <<<<"a", "b", "_", "a">>, <<"a", "b", "_", "b">>,
                 <<"a", "b", "-", "c", "_">>, <<"a", "b", "_", "a">>,
                 <<"a", "b", "_", "d">>, <<"a", "b", "_", "e">>,
                 <<"a", "b", "_", "f">>, <<"a", "b", "_", "g">>>>] }

\* _generate_ai_usernames: the lists it can return for a response
GenerateAiUsernames(name, response) ==
    IF response.kind = "raise"
    THEN GenerateCreativeUsernames(name)
    ELSE {Take(CleanedLines(response.lines), 6)}

\* the first five rules, for the draws n, year and prefix
AddUnderscore(name) == Lower(Replace(name, " ", <<"_">>))
AddNumbers(name, n) == CleanName(name) \o Digits(n)
AddYear(name, year) == CleanName(name) \o Digits(year)
AddDots(name) == Lower(Replace(name, " ", <<".">>))
AddPrefix(name, prefix) == prefix \o <<"_">> \o CleanName(name)
Years == <<2020, 2021, 2022, 2023, 2024>>
Prefixes == <<<<"t", "h", "e">>, <<"m", "r">>, <<"m", "s">>, <<"d", "r">>, <<"p", "r", "o", "f">>>>
\* if username and len(username) >= 3
KeptRule(username) == Len(username) >= 3
RuleUsernames(name, n, year, prefix) ==
    SelectSeq(<<AddUnderscore(name), AddNumbers(name, n), AddYear(name, year),
                AddDots(name), AddPrefix(name, prefix)>>, KeptRule)
GenerateRuleBasedUsernames(name) ==
    {RuleUsernames(name, n, year, prefix) :
        n \in RandInt(1, 999), year \in RandChoiceFirst(Years),
        prefix \in RandChoiceFirst(Prefixes)}

\* list(dict.fromkeys(usernames)): the first occurrence of each, in order
RECURSIVE DedupeFrom(_, _)
DedupeFrom(xs, acc) ==
    IF Len(xs) = 0 THEN acc
    ELSE DedupeFrom(Tail(xs),
                    IF \E i \in 1..Len(acc) : acc[i] = Head(xs)
                    THEN acc ELSE Append(acc, Head(xs)))
Dedupe(xs) == DedupeFrom(xs, <<>>)

\* _create_variation: what the draw of one variation can give
CreateVariation(base_name) ==
    UNION {RandChoice(<<base_name \o Digits(n),
                        base_name \o <<"_", "v">> \o Digits(v),
                        <<"u", "s", "e", "r", "_">> \o base_name,
                        base_name \o <<"_", "n", "e", "w">>>>) :
            n \in RandInt(100, 999), v \in RandInt(1, 9)}

\* base_name = english_name.lower().replace(' ', '')
BaseName(english_name) == Replace(Lower(english_name), " ", <<>>)

\* one turn of the while loop: the variation is appended when it is new
FillMutAlways(unique_usernames, variation) == Append(unique_usernames, variation)
Fill(unique_usernames, variation) ==
    IF \E i \in 1..Len(unique_usernames) : unique_usernames[i] = variation
    THEN unique_usernames
    ELSE Append(unique_usernames, variation)

(***************************************************************************)
(* agents/reviewer.py and services/database_service.py                     *)
(***************************************************************************)
\* the usernames table after _initialize_db
SampleUsernames ==
    { <<"j", "o", "h", "n", "_", "d", "o", "e">>,
      <<"j", "a", "n", "e", "_", "s", "m", "i", "t", "h">>,
      <<"u", "s", "e", "r", "1", "2", "3">>,
      <<"a", "d", "m", "i", "n">>,
      <<"t", "e", "s", "t", "_", "u", "s", "e", "r">>,
      <<"m", "u", "h", "a", "m", "m", "a", "d", "_", "a", "l", "i">>,
      <<"a", "h", "m", "e", "d", "1", "2", "3">>,
      <<"j", "o", "s", "e", "_", "g", "a", "r", "c", "i", "a">>,
      <<"m", "a", "r", "i", "a", "_", "l", "o", "p", "e", "z">>,
      <<"a", "d", "m", "i", "n", "1", "2", "3">>,
      <<"u", "s", "e", "r", "_", "0", "0", "1">>,
      <<"t", "e", "s", "t", "1", "2", "3">>,
      <<"s", "a", "m", "p", "l", "e", "_", "u", "s", "e", "r">> }

\* _filter_existing_usernames
RECURSIVE FilterExisting(_, _)
FilterExisting(usernames, db) ==
    IF Len(usernames) = 0 THEN <<>>
    ELSE (IF Lower(Head(usernames)) \in db THEN <<>> ELSE <<Head(usernames)>>)
         \o FilterExisting(Tail(usernames), db)

\* _calculate_traditional_score
CountDigits(username) ==
    Cardinality({i \in 1..Len(username) :
                    \E d \in 1..Len(DigitChars) : username[i] = DigitChars[d]})
StartsWithLetter(username) ==
    /\ Len(username) > 0
    /\ \E i \in 1..Len(UpperLetters) :
            username[1] = UpperLetters[i] \/ username[1] = LowerLetters[i]
TraditionalScore(username) ==
    50
    + (IF 6 <= Len(username) /\ Len(username) <= 15 THEN 20
       ELSE IF 4 <= Len(username) /\ Len(username) <= 20 THEN 10 ELSE -10)
    + (IF CountDigits(username) <= 2 THEN 10 ELSE -5)
    + (IF StartsWithLetter(username) THEN 5 ELSE -5)

\* _ai_enhanced_ranking: 60% of the AI score (50 for a username the AI did
\* not score), 40% of the traditional one, sorted by it
AiScore(ai_rankings, username) ==
    IF username \in DOMAIN ai_rankings THEN ai_rankings[username] ELSE 50
CombinedScores(ai_rankings, usernames) ==
    [i \in 1..Len(usernames) |->
        [username |-> usernames[i],
         score |-> Ratio(6 * AiScore(ai_rankings, usernames[i])
                         + 4 * TraditionalScore(usernames[i]), 10)]]
Usernames(scored) == [i \in 1..Len(scored) |-> scored[i].username]
AiEnhancedRanking(ai_rankings, usernames) ==
    Usernames(SortedByScoreDesc(CombinedScores(ai_rankings, usernames)))

\* review_and_rank(input_name, usernames)
ReviewAndRank(input_name, usernames, ai_rankings, db) ==
    IF Len(FilterExisting(usernames, db)) = 0
    THEN <<>>
    ELSE Take(AiEnhancedRanking(ai_rankings, FilterExisting(usernames, db)), 3)

\* the scores the AI gives: none (a failed or empty answer), or the best
\* score to the last username it was shown
AiRankings(usernames) ==
    {<<>>} \cup {[u \in {usernames[i]} |-> 100] : i \in {Len(usernames)} \ {0}}

\* a call of review_and_rank with the positional arguments args: Python
\* binds them to (input_name, usernames) or raises TypeError
CallReviewAndRank(args, ai_rankings, db) ==
    IF Len(args) = 2
    THEN [kind |-> "return",
          value |-> ReviewAndRank(args[1], args[2], ai_rankings, db)]
    ELSE [kind |-> "raise", value |-> "TypeError"]

(***************************************************************************)
(* graph/workflow.py, node by node                                         *)
(***************************************************************************)
\* UsernameState(input_name=input_name)
InitialState(input_name) ==
    [input_name |-> input_name, candidate_usernames |-> <<>>,
     final_usernames |-> <<>>, error |-> ""]

\* _reviewer_node: the update of the state and whether review_and_rank was
\* called
ReviewerUpdate(st, call) ==
    IF call.kind = "raise"
    THEN [state |-> [st EXCEPT !.error = "Reviewer error"], agent_calls |-> 1]
    ELSE [state |-> [st EXCEPT !.final_usernames = call.value], agent_calls |-> 1]
ReviewerNodeMutIgnoresError(st, ai_rankings, db) ==
    ReviewerUpdate(st, CallReviewAndRank(<<st.candidate_usernames>>, ai_rankings, db))
ReviewerNode(st, ai_rankings, db) ==
    IF st.error # ""
    THEN [state |-> [st EXCEPT !.final_usernames = <<>>], agent_calls |-> 0]
    ELSE ReviewerUpdate(st, CallReviewAndRank(<<st.candidate_usernames>>,
                                              ai_rankings, db))

\* no workflow run yet
NoState == InitialState(<<>>)
NoRun ==
    [pc |-> "idle", english_name |-> <<>>, unique_usernames |-> <<>>,
     base_name |-> <<>>, nodes |-> <<>>, creator_error |-> "",
     agent_calls |-> 0, result |-> <<>>]

(***************************************************************************)
(* Initial states: a loaded dataset, a constructed matcher, an empty cache *)
(***************************************************************************)
Datasets == SeqsUpTo(RowUniverse, MaxRows)

InitService ==
    /\ cache = <<>>
    /\ held = NoKey
    /\ ret = NoRet
    /\ firstRet = NoFirst
    /\ ncalls = 0
    /\ clock = 0
    /\ last_use = <<>>
    /\ http = NoHttp
    /\ state = NoState
    /\ run = NoRun
    /\ usernames_db = SampleUsernames
    /\ nlargest_rejects_empty \in (IF Len(names_df) = 0 THEN BOOLEAN ELSE {FALSE})

Init ==
    /\ names_df \in Datasets
    /\ top_k \in 1..TOP_K
    /\ InitService

(***************************************************************************)
(* Operations                                                              *)
(***************************************************************************)
GetTopMatchesDone(key, r) ==
    /\ cache' = r.cache
    /\ ret' = [op |-> "get_top_matches", key |-> key, kind |-> r.kind,
               value |-> r.value, hit |-> r.hit]
    /\ held' = IF r.kind = "return" THEN key ELSE NoKey
    /\ firstRet' = Remember(firstRet, key, r.kind, r.value)
    /\ ncalls' = ncalls + 1
    /\ clock' = Tick(clock, r.kind)
    /\ last_use' = Touch(last_use, clock, key, r.kind)
    /\ UNCHANGED <<names_df, top_k, http, nlargest_rejects_empty>>
    /\ UNCHANGED workflowVars

\* an outside call matcher.get_top_matches(name, lang, method)
GetTopMatches(name, lang, method) ==
    /\ ncalls < MaxCalls
    /\ GetTopMatchesDone(MakeKey(name, lang, method),
                         CachedCall(cache, names_df, top_k, name, lang, method))

GetEnglishNameDone(name, r) ==
    /\ cache' = r.cache
    /\ ret' = [op |-> "get_english_name", name |-> name, kind |-> r.kind,
               value |-> r.value, native |-> r.native, english |-> r.english]
    /\ held' = IF held \in r.evicted THEN NoKey ELSE held
    /\ firstRet' = Remember(Remember(firstRet, r.nativeKey, r.nativeKind, r.native),
                            r.englishKey, r.englishKind, r.english)
    /\ ncalls' = ncalls + 1
    /\ clock' = Tick(Tick(clock, r.nativeKind), r.englishKind)
    /\ last_use' = Touch(Touch(last_use, clock, r.nativeKey, r.nativeKind),
                         Tick(clock, r.nativeKind), r.englishKey, r.englishKind)
    /\ UNCHANGED <<names_df, top_k, nlargest_rejects_empty>>

\* an outside call name_service.get_english_name(name)
GetEnglishName(name) ==
    /\ ncalls < MaxCalls
    /\ GetEnglishNameDone(name, EnglishName(cache, names_df, top_k, name))
    /\ UNCHANGED http
    /\ UNCHANGED workflowVars

\* the caller of get_top_matches removes the last element of the list it
\* received (list.pop()): lru_cache handed out the very list it stores
CallerMutatesAt(i) ==
    /\ i > 0
    /\ Len(cache[i].val) > 0
    /\ cache' = [cache EXCEPT ![i].val = SubSeq(@, 1, Len(@) - 1)]
    /\ UNCHANGED <<names_df, top_k, held, ret, firstRet, ncalls, clock, last_use,
                   http, nlargest_rejects_empty>>
    /\ UNCHANGED workflowVars

CallerMutates ==
    /\ held # NoKey
    /\ CallerMutatesAt(CacheIndex(cache, held))

\* POST /generate-usernames, a blank name
GenerateUsernamesBlank(name) ==
    /\ ncalls < MaxCalls
    /\ IsBlank(name)
    /\ http' = BlankResponse(name)
    /\ ncalls' = ncalls + 1
    /\ UNCHANGED <<names_df, top_k, cache, held, ret, firstRet, clock, last_use,
                   nlargest_rejects_empty>>
    /\ UNCHANGED workflowVars

GenerateUsernamesRun(name, r) ==
    /\ GetEnglishNameDone(Strip(name), r)
    /\ http' = WorkflowResponse(name, ReviewerOutcome(CreatorError(r)))
    /\ UNCHANGED workflowVars

\* POST /generate-usernames, any other name: workflow.generate_usernames runs
\* the creator node, then the reviewer node
GenerateUsernames(name) ==
    /\ ncalls < MaxCalls
    /\ ~IsBlank(name)
    /\ GenerateUsernamesRun(name, EnglishName(cache, names_df, top_k, Strip(name)))

Next ==
    \/ \E name \in Queries, lang \in Langs, method \in Methods :
            GetTopMatches(name, lang, method)
    \/ \E name \in Queries : GetEnglishName(name)

Spec == Init /\ [][Next]_vars

\* the matcher with a caller that changes the lists it is handed
NextCaller == Next \/ CallerMutates
SpecCaller == Init /\ [][NextCaller]_vars

\* the HTTP entry point
NextApi ==
    \/ \E name \in RequestNames : GenerateUsernamesBlank(name)
    \/ \E name \in RequestNames : GenerateUsernames(name)
SpecApi == Init /\ [][NextApi]_vars

\* the scoring of one query against one stored value, over all short strings
InitScore ==
    /\ names_df \in {<<[name |-> s, english_name |-> s]>> : s \in ScoreStrings}
    /\ top_k = TOP_K
    /\ InitService
ScoreOne(name, lang, method) ==
    /\ ncalls = 0
    /\ GetTopMatchesDone(MakeKey(name, lang, method),
                         CachedCall(cache, names_df, top_k, name, lang, method))
NextScore ==
    \E name \in ScoreStrings, lang \in Langs, method \in Supported :
        ScoreOne(name, lang, method)
SpecScore == InitScore /\ [][NextScore]_vars

\* the cache near its capacity: the matcher after LRU_MAXSIZE - 1 or
\* LRU_MAXSIZE calls with distinct names (the i-th name is i written in
\* binary, a for 0 and b for 1), then called with some of those names and
\* with new ones
RECURSIVE FillName(_)
FillName(i) ==
    IF i < 2
    THEN <<IF i = 1 THEN "b" ELSE "a">>
    ELSE Append(FillName(i \div 2), IF i % 2 = 1 THEN "b" ELSE "a")
FillKey(i) == MakeKey(FillName(i), NATIVE_LANG, "levenshtein")
FilledCache(df, k, n) ==
    [i \in 1..n |->
        [key |-> FillKey(i),
         val |-> GetTopMatchesBody(df, k, FillName(i), NATIVE_LANG, "levenshtein").value]]
\* the number a fill name is the binary writing of
RECURSIVE FillIndex(_)
FillIndex(name) ==
    IF Len(name) = 0 THEN 0
    ELSE 2 * FillIndex(SubSeq(name, 1, Len(name) - 1))
         + (IF name[Len(name)] = "b" THEN 1 ELSE 0)
FilledLastUse(n) == [key \in {FillKey(i) : i \in 1..n} |-> FillIndex(key.name)]
LruQueries ==
    {FillName(1), FillName(2), FillName(3), FillName(LRU_MAXSIZE),
     FillName(LRU_MAXSIZE + 1), FillName(LRU_MAXSIZE + 2)}
InitLruFilled(n) ==
    /\ cache = FilledCache(names_df, top_k, n)
    /\ clock = n
    /\ last_use = FilledLastUse(n)
    /\ firstRet = [key |-> FillKey(1), value |-> cache[1].val]
InitLru ==
    /\ names_df \in {<<r>> : r \in RowUniverse}
    /\ top_k = TOP_K
    /\ \E n \in {LRU_MAXSIZE - 1, LRU_MAXSIZE} : InitLruFilled(n)
    /\ held = NoKey
    /\ ret = NoRet
    /\ ncalls = 0
    /\ http = NoHttp
    /\ state = NoState
    /\ run = NoRun
    /\ usernames_db = SampleUsernames
    /\ nlargest_rejects_empty = FALSE
NextLru ==
    \E name \in LruQueries : GetTopMatches(name, NATIVE_LANG, "levenshtein")
SpecLru == InitLru /\ [][NextLru]_vars

\* the workflow run node by node: graph.invoke enters the creator node,
\* whose create_usernames resolves the name, asks the AI generator, applies
\* the rules and removes the duplicates
WorkflowRow == [name |-> <<"a", "b">>, english_name |-> <<"A", " ", "b">>]
WorkflowDatasets == {<<>>, <<WorkflowRow>>}
WorkflowNames == {<<"a", "b">>}

InitWorkflow ==
    /\ names_df \in WorkflowDatasets
    /\ top_k = TOP_K
    /\ InitService

\* get_english_name raised: the node records the error
CreatorNodeRaises(name, r) ==
    /\ r.kind = "raise"
    /\ state' = [InitialState(name) EXCEPT !.error = CreatorError(r)]
    /\ run' = [NoRun EXCEPT !.pc = "reviewer", !.nodes = <<"creator">>,
                            !.creator_error = CreatorError(r)]

\* get_english_name returned: create_usernames reaches its while loop
CreatorNodeStarts(name, r) ==
    /\ r.kind = "return"
    /\ state' = InitialState(name)
    /\ \E response \in AiResponses :
        \E ai_usernames \in GenerateAiUsernames(r.value, response),
           rule_usernames \in GenerateRuleBasedUsernames(r.value) :
            run' = [NoRun EXCEPT !.pc = "fill", !.english_name = r.value,
                                 !.unique_usernames =
                                     Dedupe(ai_usernames \o rule_usernames),
                                 !.base_name = BaseName(r.value)]

CreatorNodeRun(name, r) ==
    /\ GetEnglishNameDone(name, r)
    /\ CreatorNodeRaises(name, r) \/ CreatorNodeStarts(name, r)
    /\ UNCHANGED <<http, usernames_db>>

CreatorNode(name) ==
    /\ run.pc = "idle"
    /\ CreatorNodeRun(name, EnglishName(cache, names_df, top_k, name))

\* one turn of `while len(unique_usernames) < 10`
FillLoop ==
    /\ run.pc = "fill"
    /\ Len(run.unique_usernames) < MIN_CANDIDATES
    /\ \E variation \in CreateVariation(run.base_name) :
            run' = [run EXCEPT !.unique_usernames = Fill(@, variation)]
    /\ UNCHANGED <<state, usernames_db>>
    /\ UNCHANGED serviceVars

\* the loop is over: create_usernames returns unique_usernames[:12] and the
\* creator node stores it
CreatorReturns ==
    /\ run.pc = "fill"
    /\ Len(run.unique_usernames) >= MIN_CANDIDATES
    /\ state' = [state EXCEPT !.candidate_usernames =
                                  Take(run.unique_usernames, MAX_CANDIDATES)]
    /\ run' = [run EXCEPT !.pc = "reviewer", !.nodes = Append(@, "creator")]
    /\ UNCHANGED usernames_db
    /\ UNCHANGED serviceVars

\* the reviewer node has run: the graph reaches END and generate_usernames
\* returns result['final_usernames']
ReviewerNodeDone(u) ==
    /\ state' = u.state
    /\ run' = [run EXCEPT !.pc = "returned", !.nodes = Append(@, "reviewer"),
                          !.agent_calls = @ + u.agent_calls,
                          !.result = u.state.final_usernames]
    /\ UNCHANGED usernames_db
    /\ UNCHANGED serviceVars

\* the reviewer node, the edge to END and the return of generate_usernames
ReviewerNodeRuns ==
    /\ run.pc = "reviewer"
    /\ \E ai_rankings \in AiRankings(state.candidate_usernames) :
            ReviewerNodeDone(ReviewerNode(state, ai_rankings, usernames_db))

NextWorkflow ==
    \/ \E name \in WorkflowNames : CreatorNode(name)
    \/ FillLoop
    \/ CreatorReturns
    \/ ReviewerNodeRuns
SpecWorkflow == InitWorkflow /\ [][NextWorkflow]_vars

\* the workflow run that keeps going: a draw of a variation the list already
\* holds leaves the list as it is, and the loop does not redraw held
\* variations for ever
SpecWorkflowFair == SpecWorkflow /\ WF_vars(FillLoop) /\ WF_vars(CreatorReturns)

(***************************************************************************)
(* Properties                                                              *)
(***************************************************************************)
Range(xs) == {xs[i] : i \in 1..Len(xs)}

Resolved == ret.op = "get_english_name"
Matched == ret.op = "get_top_matches" /\ ret.kind = "return"

\* a fresh scan of one column with the default metric, as a list
FreshScan(name, column) ==
    GetTopMatchesLevenshtein(names_df, top_k, name, column).value

\* the merged set of a resolve: top-K of the native column and of the English one
MergedSet == Range(FreshScan(ret.name, "name")) \cup Range(FreshScan(ret.name, "english_name"))

IsMaxOf(m, S) == m \in S /\ \A o \in S : ScoreLE(o.score, m.score)

\* C1: on a non-empty dataset get_english_name succeeds, and what it returns
\* is the English form of a result whose score is the maximum over the merged
\* set of the native-column top-K and the English-column top-K
C1_ResolveReturnsMaxOfMerged ==
    (Resolved /\ Len(names_df) > 0) =>
        /\ ret.kind = "return"
        /\ \A S \in {MergedSet} : \E m \in S : IsMaxOf(m, S) /\ m.english = ret.value

\* a resolve whose maximum is below 100, while a result of lower score
\* carries an English form that no result of maximal score has
C1_Witness ==
    /\ Resolved /\ Len(names_df) > 0 /\ ret.kind = "return"
    /\ \E S \in {MergedSet} : \E m \in S :
          /\ IsMaxOf(m, S)
          /\ ScoreLT(m.score, Score100)
          /\ m.english = ret.value
          /\ \E o \in S : /\ ScoreLT(o.score, m.score)
                         /\ \A x \in S : IsMaxOf(x, S) => x.english # o.english

\* the best results of the two passes of a resolve tie
MergeTie ==
    /\ Resolved /\ ret.kind = "return"
    /\ Len(ret.native) > 0 /\ Len(ret.english) > 0
    /\ ret.native[1].score = ret.english[1].score

EnglishSearch ==
    /\ Matched
    /\ ret.key.lang # NATIVE_LANG
    /\ ret.key.method \in Supported
    /\ ~ret.hit

\* rows (1-based) whose English form is the query, character for character
ExactRows == {i \in 1..Len(names_df) : names_df[i].english_name = ret.key.name}

\* C3 as stated: every row whose English form equals the query is itself the
\* first result, with score 100
C3_ExactRowIsFirst ==
    EnglishSearch =>
        \A i \in ExactRows : /\ Len(ret.value) > 0
                             /\ ret.value[1].idx = i - 1
                             /\ ret.value[1].score = Score100

\* C3 amended: when some row's English form equals the query, the first
\* result is the lowest-indexed such row, with score 100, under each metric
C3_FirstExactRowIsFirst ==
    (EnglishSearch /\ ExactRows # {}) =>
        /\ Len(ret.value) > 0
        /\ ret.value[1].idx + 1 \in ExactRows
        /\ \A i \in ExactRows : ret.value[1].idx + 1 <= i
        /\ ret.value[1].score = Score100
        /\ ret.value[1].matched = ret.key.name

\* two rows share the English form searched for; the first of them comes first
C3_Witness ==
    /\ EnglishSearch
    /\ Cardinality(ExactRows) > 1
    /\ ret.key.method = "jaro_winkler"
    /\ ret.value[1].idx + 1 \in ExactRows

\* the lists get_top_matches has handed out: the last return and the two
\* passes of the last resolve
Handed ==
    IF Matched THEN {ret.value}
    ELSE IF Resolved /\ ret.kind = "return" THEN {ret.native, ret.english}
    ELSE {}

\* C4: the number n of results satisfies min(k, dataset size) <= n <= k
C4_ResultCount ==
    \A v \in Handed : /\ Len(v) <= top_k
                      /\ Len(v) >= Min2(top_k, Len(names_df))

\* a dataset larger than k, cut to exactly k results
C4_Witness ==
    /\ Matched
    /\ Len(names_df) > top_k
    /\ Len(ret.value) = top_k

\* the scores the last get_top_matches call gives the rows (1-based)
RowScores ==
    ScoresOf(MethodOf(ret.key.method), GetNames(names_df, ColumnOf(ret.key.lang)),
             ret.key.name)

Returned == {ret.value[n].idx + 1 : n \in 1..Len(ret.value)}

\* C5: results come in non-increasing score, equal scores in increasing row
\* index; a row left out never scores higher than a returned one, and on an
\* equal score the row left out has the larger index
C5_Ordered ==
    Matched => \A sc \in {RowScores} :
        /\ \A n \in 1..(Len(ret.value) - 1) :
              \/ ScoreLT(ret.value[n + 1].score, ret.value[n].score)
              \/ /\ ret.value[n + 1].score = ret.value[n].score
                 /\ ret.value[n].idx < ret.value[n + 1].idx
        /\ \A n \in 1..Len(ret.value) : ret.value[n].score = sc[ret.value[n].idx + 1]
        /\ \A i \in (1..Len(names_df)) \ Returned : \A n \in 1..Len(ret.value) :
              \/ ScoreLT(sc[i], ret.value[n].score)
              \/ /\ sc[i] = ret.value[n].score
                 /\ ret.value[n].idx < i - 1

\* a row left out ties with the returned row of lowest score, below 100
C5_Witness ==
    /\ Matched
    /\ Len(ret.value) >= 1
    /\ ScoreLT(ret.value[Len(ret.value)].score, Score100)
    /\ \E i \in (1..Len(names_df)) \ Returned :
          RowScores[i] = ret.value[Len(ret.value)].score

\* C6: a get_top_matches call returns what the first call with the same
\* arguments returned
C6_SameArgumentsSameResult ==
    (Matched /\ ret.key = firstRet.key) => ret.value = firstRet.value

\* the method names the specification lists
SpecMethodNames == {"levenshtein", "damerau_levenshtein", "jaro_winkler"}

Cached(key) == \E i \in 1..Len(cache) : cache[i].key = key

Unsupported ==
    /\ ret.kind = "raise"
    /\ ret.value = "ValueError: Unsupported method"
    /\ ~Cached(ret.key)

\* C7 as stated: levenshtein, damerau_levenshtein and jaro_winkler return a
\* result; any other method fails as unsupported and nothing is cached
C7_SpecMethodNamesAccepted ==
    ret.op = "get_top_matches" =>
        IF ret.key.method \in SpecMethodNames THEN ret.kind = "return" ELSE Unsupported

\* C7 amended: levenshtein, damerau and jaro_winkler are the methods accepted:
\* with one of them the call never fails as unsupported, and returns a result
\* whenever the dataset is not empty; any other method (damerau_levenshtein
\* too) fails as unsupported and nothing is cached for it
C7_CodeMethodNamesAccepted ==
    ret.op = "get_top_matches" =>
        IF ret.key.method \in {"levenshtein", "damerau", "jaro_winkler"}
        THEN /\ ~(ret.kind = "raise" /\ ret.value = "ValueError: Unsupported method")
             /\ Len(names_df) > 0 => ret.kind = "return"
        ELSE Unsupported

\* damerau_levenshtein is refused while the cache holds earlier results
C7_Witness ==
    /\ ret.op = "get_top_matches"
    /\ ret.key.method = "damerau_levenshtein"
    /\ Unsupported
    /\ Len(cache) > 0

\* C8: every score placed in a result lies in [0, 100], and is 100 when the
\* query and the row value are the same string
C8_ScoreRange ==
    Matched =>
        \A n \in 1..Len(ret.value) :
            /\ ScoreLE(Score0, ret.value[n].score)
            /\ ScoreLE(ret.value[n].score, Score100)
            /\ ret.value[n].score.den > 0
            /\ ret.value[n].matched = ret.key.name => ret.value[n].score = Score100

\* a Jaro-Winkler score strictly between 0 and 100 of two strings of equal
\* length that differ by a transposition
C8_Witness ==
    /\ Matched
    /\ ret.key.method = "jaro_winkler"
    /\ Len(ret.value) = 1
    /\ Len(ret.key.name) = 4
    /\ Len(ret.value[1].matched) = 4
    /\ JaroTranspositions(ret.key.name, ret.value[1].matched,
                          JaroMatch(ret.key.name, ret.value[1].matched, 1, {}, <<>>)) > 0
    /\ ScoreLT(Score0, ret.value[1].score)
    /\ ScoreLT(ret.value[1].score, Score100)

\* C9: on an empty dataset get_english_name fails with NoMatchFoundError
C9_EmptyDatasetNoMatchFound ==
    (Resolved /\ Len(names_df) = 0) =>
        ret.kind = "raise" /\ ret.value = "NoMatchFoundError"

\* C10: a request with a blank name is answered 400 and runs no workflow
C10_BlankNameIs400 ==
    (http # NoHttp /\ IsBlank(http.name)) =>
        http.status = 400 /\ ~http.workflow

\* C13: a call answered from the cache returns what a scan of the dataset
\* with the same name, lang and method gives now, with the current top_k
C13_HitEqualsFreshScan ==
    (Matched /\ ret.hit) =>
        \A fresh \in {GetTopMatchesBody(names_df, top_k, ret.key.name,
                                        ret.key.lang, ret.key.method)} :
            fresh.kind = "return" /\ ret.value = fresh.value

\* a hit on the English column that returns fewer results than there are rows
C13_Witness ==
    /\ Matched
    /\ ret.hit
    /\ ret.key.lang # NATIVE_LANG
    /\ Len(ret.value) > 0
    /\ Len(ret.value) < Len(names_df)

CacheKeys(c) == {c[i].key : i \in 1..Len(c)}

\* a step that inserts a key into a full cache removes one key, the one whose
\* last read or insert is the oldest, and keeps every other entry
EvictsLeastRecentlyUsed ==
    (Len(cache) = LRU_MAXSIZE /\ CacheKeys(cache') \ CacheKeys(cache) # {}) =>
        \E e \in CacheKeys(cache) \ CacheKeys(cache') :
            /\ CacheKeys(cache) \ CacheKeys(cache') = {e}
            /\ \A o \in CacheKeys(cache) : last_use[e] <= last_use[o]
            /\ \A x \in Range(cache) \ Range(cache') : x.key = e

\* C14: the cache never holds more than LRU_MAXSIZE entries, and an insert
\* into a full cache evicts exactly the least recently used entry
C14_CapacityAndLRU ==
    [](Len(cache) <= LRU_MAXSIZE) /\ [][EvictsLeastRecentlyUsed]_vars

\* the oldest entry was read, then a new key was inserted into the full
\* cache: the second oldest entry is gone, the oldest is still there
C14_Witness ==
    /\ Len(cache) = LRU_MAXSIZE
    /\ clock = LRU_MAXSIZE + 2
    /\ Cached(FillKey(1))
    /\ ~Cached(FillKey(2))
    /\ Cached(FillKey(LRU_MAXSIZE + 1))

\* create_usernames has returned its list to the creator node
Created == run.pc \in {"reviewer", "returned"} /\ run.creator_error = ""

NoDuplicates(xs) == \A i, j \in 1..Len(xs) : xs[i] = xs[j] => i = j

NotTaken(usernames) ==
    {usernames[i] : i \in {j \in 1..Len(usernames) : Lower(usernames[j]) \notin usernames_db}}

\* what the reviewer agent can answer for the candidates
ReviewerResults(st) ==
    {ReviewAndRank(st.input_name, st.candidate_usernames, ai_rankings, usernames_db) :
        ai_rankings \in AiRankings(st.candidate_usernames)}

\* C12: after a creator node without error, final_usernames is the reviewer
\* agent's result for the candidates (those not taken, ranked, at most 3),
\* and generate_usernames returns a non-empty list when a candidate is not
\* taken
C12_ReviewerResultIsReturned ==
    (run.pc = "returned" /\ Created) =>
        /\ state.final_usernames \in ReviewerResults(state)
        /\ run.result = state.final_usernames
        /\ NotTaken(state.candidate_usernames) # {} => run.result # <<>>

\* C15: the creator node runs first, the reviewer node once after it and
\* then the run ends; after a creator error review_and_rank is not called
\* and generate_usernames returns the empty list
C15_CreatorThenReviewerOnce ==
    /\ run.pc = "idle" => run.nodes = <<>>
    /\ run.pc = "fill" => run.nodes = <<>>
    /\ run.pc = "reviewer" => run.nodes = <<"creator">>
    /\ run.pc = "returned" => run.nodes = <<"creator", "reviewer">>
    /\ run.creator_error # "" =>
            /\ run.agent_calls = 0
            /\ run.pc = "returned" => run.result = <<>> /\ state.final_usernames = <<>>

\* a run on an empty dataset: the creator node recorded its error, the
\* reviewer node ran, generate_usernames returned
C15_Witness ==
    /\ run.pc = "returned"
    /\ run.creator_error # ""
    /\ state.error = run.creator_error
    /\ run.nodes = <<"creator", "reviewer">>

=============================================================================
